---- MODULE Spec2Model ----
(***************************************************************************)
(* The export stage of run_analysis (src/main.py): the sidecar metadata    *)
(* write, the grouping of the registered models, and, per group, the sort, *)
(* the fold that converts, renames, prefixes, merges and rewires each      *)
(* model, and the save of the combined graph.                              *)
(*                                                                         *)
(* A name (a Python str) is a sequence of tokens.  The tokenisation is     *)
(* canonical: "_" is always a token of its own, a "q" that follows "_" is  *)
(* a token of its own, "Point" is a token of its own and a decimal digit   *)
(* of a model name is a token of its own, so that the substring tests of   *)
(* the code ('Point' in n, '_q' in n, n.split('_q'), str.startswith) and   *)
(* string concatenation are exact on token sequences.                      *)
(***************************************************************************)
EXTENDS Integers, Sequences, FiniteSets, TLC

\* ------------------------------------------------------------------ bounds

\* the longest registry (trainer.models) explored
MaxModels == 3

\* the longest feature-name list explored
MaxFeatures == 2

\* ------------------------------------------------------------------- names

FloatInput == <<"float_input">>
Variable == <<"variable">>
Underscore == <<"_">>

Price_Point == <<"Price", "_", "Point">>
Price_Lower_q5 == <<"Price", "_", "Lower", "_", "q", "5">>
Price_Mid_q10 == <<"Price", "_", "Mid", "_", "q", "1", "0">>
Price_Upper_q95 == <<"Price", "_", "Upper", "_", "q", "9", "5">>
Revenue_Point == <<"Revenue", "_", "Point">>
Revenue_Lower_q5 == <<"Revenue", "_", "Lower", "_", "q", "5">>

\* names run_price_analysis and run_revenue_analysis register
TrainedNames ==
    {Price_Point, Price_Lower_q5, Price_Upper_q95, Revenue_Point, Revenue_Lower_q5}

Digits == {"0", "1", "2", "3", "4", "5", "6", "7", "8", "9"}

DigitValue(t) ==
    CASE t = "0" -> 0 [] t = "1" -> 1 [] t = "2" -> 2 [] t = "3" -> 3
      [] t = "4" -> 4 [] t = "5" -> 5 [] t = "6" -> 6 [] t = "7" -> 7
      [] t = "8" -> 8 [] t = "9" -> 9

SetMin(S) == CHOOSE x \in S : \A y \in S : x <= y

\* str.startswith(token)
startswith(n, tok) == Len(n) >= 1 /\ n[1] = tok

\* 'Point' in n
ContainsPoint(n) == \E i \in 1..Len(n) : n[i] = "Point"

\* the positions where '_q' occurs in n
QPositions(n) == {i \in 1..(Len(n) - 1) : n[i] = "_" /\ n[i + 1] = "q"}

\* '_q' in n
ContainsQ(n) == QPositions(n) # {}

\* n.split('_q')[1]: the text between the first '_q' and the next one (or the end)
SplitQ1(n) ==
    LET first == SetMin(QPositions(n))
        later == {i \in QPositions(n) : i > first}
        stop  == IF later = {} THEN Len(n) + 1 ELSE SetMin(later)
    IN  SubSeq(n, first + 2, stop - 1)

\* float(s) succeeds on a non-empty run of decimal digits (the only numerals
\* among the names modelled) and raises ValueError otherwise
IsNumeral(s) == Len(s) >= 1 /\ \A i \in 1..Len(s) : s[i] \in Digits

RECURSIVE NumeralValue(_)
NumeralValue(s) ==
    IF Len(s) = 0 THEN 0
    ELSE 10 * NumeralValue(SubSeq(s, 1, Len(s) - 1)) + DigitValue(s[Len(s)])

\* sort_key(n): [ok |-> FALSE] when float() raises
sort_key(n) ==
    IF ContainsPoint(n) THEN [ok |-> TRUE, val |-> -1]
    ELSE IF ContainsQ(n)
         THEN IF IsNumeral(SplitQ1(n))
              THEN [ok |-> TRUE, val |-> NumeralValue(SplitQ1(n))]
              ELSE [ok |-> FALSE, val |-> 0]
         ELSE [ok |-> TRUE, val |-> 0]

\* an insertion that puts x before the elements of equal key
RECURSIVE InsertByKey_BeforeEqual(_, _)
InsertByKey_BeforeEqual(x, s) ==
    IF s = <<>> THEN <<x>>
    ELSE IF sort_key(s[Len(s)]).val < sort_key(x).val
         THEN Append(s, x)
         ELSE Append(InsertByKey_BeforeEqual(x, SubSeq(s, 1, Len(s) - 1)), s[Len(s)])

\* x placed after every element whose key is not greater: a stable insertion
RECURSIVE InsertByKey(_, _)
InsertByKey(x, s) ==
    IF s = <<>> THEN <<x>>
    ELSE IF sort_key(s[Len(s)]).val <= sort_key(x).val
         THEN Append(s, x)
         ELSE Append(InsertByKey(x, SubSeq(s, 1, Len(s) - 1)), s[Len(s)])

\* list.sort(key=sort_key): stable, ascending
RECURSIVE SortByKey(_)
SortByKey(s) ==
    IF s = <<>> THEN <<>>
    ELSE InsertByKey(s[Len(s)], SortByKey(SubSeq(s, 1, Len(s) - 1)))

\* list.sort raises when sort_key raises on any element
SortRaises(s) == \E i \in 1..Len(s) : ~sort_key(s[i]).ok

\* ------------------------------------------------------------------ graphs
\* A graph is [node, input, output, initializer]: node a sequence of
\* [name, op_type, attr, input, output] (input and output sequences of tensor
\* names, attr the trees of the model a TreeEnsembleRegressor evaluates),
\* input a sequence of [name, shape] (shape F stands for [None, F]), output a
\* sequence of [name], initializer a sequence of [name, value].

\* the graphs convert_lightgbm builds for a booster: the tree ensemble followed
\* by an Identity to the converter's output 'variable' (shape 1), or with a
\* division by a constant initializer in between (shape 2)
ConverterShapes == {1, 2}

TreeNode(m, out) ==
    [name |-> <<"TreeEnsembleRegressor">>, op_type |-> "TreeEnsembleRegressor",
     attr |-> m, input |-> <<FloatInput>>, output |-> <<out>>]

IdentityNode(in, out) ==
    [name |-> <<"Identity">>, op_type |-> "Identity", attr |-> <<>>,
     input |-> <<in>>, output |-> <<out>>]

DivNode(in, c, out) ==
    [name |-> <<"Div">>, op_type |-> "Div", attr |-> <<>>,
     input |-> <<in, c>>, output |-> <<out>>]

\* onnxmltools.convert_lightgbm(model.booster_, initial_types=initial_type,
\* target_opset=12) for a model that converts: one declared input named as
\* initial_type names it, of shape [None, F], and one declared output
convert_lightgbm(m, shape, F) ==
    [node |->
        IF shape = 1
        THEN <<TreeNode(m, <<"output">>), IdentityNode(<<"output">>, Variable)>>
        ELSE <<TreeNode(m, <<"output">>),
               DivNode(<<"output">>, <<"divisor">>, <<"output1">>),
               IdentityNode(<<"output1">>, Variable)>>,
     input |-> <<[name |-> FloatInput, shape |-> F]>>,
     output |-> <<[name |-> Variable]>>,
     initializer |->
        IF shape = 1 THEN <<>> ELSE <<[name |-> <<"divisor">>, value |-> "n_trees"]>>]

\* s with f applied to each element
MapSeq(f(_), s) == [i \in 1..Len(s) |-> f(s[i])]

\* the elements of s that satisfy keep, in order
RECURSIVE FilterSeq(_, _)
FilterSeq(keep(_), s) ==
    IF s = <<>> THEN <<>>
    ELSE LET rest == FilterSeq(keep, SubSeq(s, 1, Len(s) - 1))
         IN  IF keep(s[Len(s)]) THEN Append(rest, s[Len(s)]) ELSE rest

SeqRange(s) == {s[i] : i \in 1..Len(s)}

\* a rename that updates the graph output definition and no node
RenameOutput_DeclaredOnly(g, name) ==
    [g EXCEPT !.output[1].name = name]

\* a rename without the comparison with the old output name: every node
\* output becomes name
RenameOutput_EveryOutput(g, name) ==
    LET RenameNode(nd) == [nd EXCEPT !.output = [k \in 1..Len(nd.output) |-> name]]
    IN  [g EXCEPT !.node = MapSeq(RenameNode, g.node),
                  !.output[1].name = name]

\* the rename of the declared output: every node output equal to the old
\* output name becomes name (node inputs are not touched), then the declared
\* output itself is renamed
RenameOutput(g, name) ==
    LET old_output_name == g.output[1].name
        RenameOut(o) == IF o = old_output_name THEN name ELSE o
        RenameNode(nd) == [nd EXCEPT !.output = MapSeq(RenameOut, nd.output)]
    IN  [g EXCEPT !.node = MapSeq(RenameNode, g.node),
                  !.output[1].name = name]

\* onnx.compose.add_prefix with its defaults: node names, edges, declared
\* inputs and outputs and initializers all get the prefix (an empty name stays)
Prefixed(prefix, x) == IF Len(x) > 0 THEN prefix \o x ELSE x

add_prefix(g, prefix) ==
    LET P(x) == Prefixed(prefix, x)
        PNode(nd) == [nd EXCEPT !.name = P(nd.name),
                                !.input = MapSeq(P, nd.input),
                                !.output = MapSeq(P, nd.output)]
        PNamed(e) == [e EXCEPT !.name = P(e.name)]
    IN  [node |-> MapSeq(PNode, g.node),
         input |-> MapSeq(PNamed, g.input),
         output |-> MapSeq(PNamed, g.output),
         initializer |-> MapSeq(PNamed, g.initializer)]

\* the names read or written by the nodes of g
EdgeNames(g) ==
    UNION {SeqRange(g.node[i].input) \cup SeqRange(g.node[i].output) :
           i \in 1..Len(g.node)}

InitializerNames(g) == {g.initializer[i].name : i \in 1..Len(g.initializer)}

InputNames(g) == {g.input[i].name : i \in 1..Len(g.input)}

OutputNames(g) == {g.output[i].name : i \in 1..Len(g.output)}

\* onnx.compose.check_overlapping_names: merge_graphs raises ValueError on it
OverlappingNames(g1, g2) ==
    \/ EdgeNames(g1) \cap EdgeNames(g2) # {}
    \/ InitializerNames(g1) \cap InitializerNames(g2) # {}

\* a merge that keeps only the declared outputs of the second model
merge_models_DropsOutputs(g1, g2) ==
    [node |-> g1.node \o g2.node,
     input |-> g1.input \o g2.input,
     output |-> g2.output,
     initializer |-> g1.initializer \o g2.initializer]

\* a merge that puts the second model before the first
merge_models_Prepends(g1, g2) ==
    [node |-> g2.node \o g1.node,
     input |-> g2.input \o g1.input,
     output |-> g2.output \o g1.output,
     initializer |-> g2.initializer \o g1.initializer]

\* onnx.compose.merge_models(m1, m2, io_map=[]) when it does not raise: the
\* nodes, declared inputs, declared outputs and initializers of m2 appended
\* to those of m1
merge_models(g1, g2) ==
    [node |-> g1.node \o g2.node,
     input |-> g1.input \o g2.input,
     output |-> g1.output \o g2.output,
     initializer |-> g1.initializer \o g2.initializer]

\* a rewiring that leaves the redundant name among the declared inputs
RewireInput_KeepsInput(g, name) ==
    LET redundant_input_name == (name \o Underscore) \o FloatInput
        Rewire(x) == IF x = redundant_input_name THEN FloatInput ELSE x
        RewireNode(nd) == [nd EXCEPT !.input = MapSeq(Rewire, nd.input)]
    IN  [g EXCEPT !.node = MapSeq(RewireNode, g.node)]

\* a rewiring that removes the redundant declared input and rewires no node
RewireInput_NoRewire(g, name) ==
    LET redundant_input_name == (name \o Underscore) \o FloatInput
        Keep(inp) == inp.name # redundant_input_name
    IN  [g EXCEPT !.input = FilterSeq(Keep, g.input)]

\* a rewiring that renames the redundant declared input as it renames the
\* node inputs, instead of removing it
RewireInput_RenamesDeclared(g, name) ==
    LET redundant_input_name == (name \o Underscore) \o FloatInput
        Rewire(x) == IF x = redundant_input_name THEN FloatInput ELSE x
        RewireNode(nd) == [nd EXCEPT !.input = MapSeq(Rewire, nd.input)]
        RewireDeclared(inp) == [inp EXCEPT !.name = Rewire(inp.name)]
    IN  [g EXCEPT !.node = MapSeq(RewireNode, g.node),
                  !.input = MapSeq(RewireDeclared, g.input)]

\* a rewiring with the two names exchanged: the consumers of 'float_input'
\* are pointed to the redundant input and 'float_input' is removed
RewireInput_Swapped(g, name) ==
    LET redundant_input_name == (name \o Underscore) \o FloatInput
        Rewire(x) == IF x = FloatInput THEN redundant_input_name ELSE x
        RewireNode(nd) == [nd EXCEPT !.input = MapSeq(Rewire, nd.input)]
        Keep(inp) == inp.name # FloatInput
    IN  [g EXCEPT !.node = MapSeq(RewireNode, g.node),
                  !.input = FilterSeq(Keep, g.input)]

\* step 3 of the merge strategy: every node input equal to the redundant
\* input name is pointed to 'float_input', and the redundant name is removed
\* from the declared inputs
RewireInput(g, name) ==
    LET redundant_input_name == (name \o Underscore) \o FloatInput
        Rewire(x) == IF x = redundant_input_name THEN FloatInput ELSE x
        RewireNode(nd) == [nd EXCEPT !.input = MapSeq(Rewire, nd.input)]
        Keep(inp) == inp.name # redundant_input_name
    IN  [g EXCEPT !.node = MapSeq(RewireNode, g.node),
                  !.input = FilterSeq(Keep, g.input)]

\* onnx.checker.check_model, which merge_models runs on its result: no tensor
\* is written twice (nor is a declared input or an initializer written by a
\* node), and every node reads only declared inputs, initializers and outputs
\* of earlier nodes
WrittenBefore(g, i) == UNION {SeqRange(g.node[j].output) : j \in 1..(i - 1)}

check_model(g) ==
    /\ \A i \in 1..Len(g.node) :
          /\ SeqRange(g.node[i].input) \subseteq
                InputNames(g) \cup InitializerNames(g) \cup WrittenBefore(g, i)
          /\ SeqRange(g.node[i].output) \cap
                (InputNames(g) \cup InitializerNames(g) \cup WrittenBefore(g, i)) = {}
          /\ \A a, b \in 1..Len(g.node[i].output) :
                g.node[i].output[a] = g.node[i].output[b] => a = b
    /\ \A i \in 1..Len(g.output) :
          g.output[i].name \in
             InputNames(g) \cup InitializerNames(g) \cup WrittenBefore(g, Len(g.node) + 1)

\* a try block in which the accumulator is assigned before merge_models has
\* checked the merge: a rejected merge leaves the merged graph in it
TryBlock_AssignsBeforeCheck(combined, name, mdl, F) ==
    IF ~mdl.converts
    THEN [raised |-> TRUE, combined |-> combined]
    ELSE LET onnx_model == RenameOutput(convert_lightgbm(name, mdl.shape, F), name)
         IN  IF combined = <<>>
             THEN [raised |-> FALSE, combined |-> <<onnx_model>>]
             ELSE LET prefixed_model == add_prefix(onnx_model, name \o Underscore)
                      merged == merge_models(combined[1], prefixed_model)
                  IN  IF OverlappingNames(combined[1], prefixed_model) \/ ~check_model(merged)
                      THEN [raised |-> TRUE, combined |-> <<merged>>]
                      ELSE [raised |-> FALSE,
                            combined |-> <<RewireInput(merged, name)>>]

\* the body of the try block for one model: raised is TRUE when an exception
\* leaves it (convert_lightgbm or merge_models raise), and then combined_model
\* has not been assigned.  combined is <<>> for None and <<g>> for a model.
TryBlock(combined, name, mdl, F) ==
    IF ~mdl.converts
    THEN [raised |-> TRUE, combined |-> combined]
    ELSE LET onnx_model == RenameOutput(convert_lightgbm(name, mdl.shape, F), name)
         IN  IF combined = <<>>
             THEN [raised |-> FALSE, combined |-> <<onnx_model>>]
             ELSE LET prefixed_model == add_prefix(onnx_model, name \o Underscore)
                      merged == merge_models(combined[1], prefixed_model)
                  IN  IF OverlappingNames(combined[1], prefixed_model) \/ ~check_model(merged)
                      THEN [raised |-> TRUE, combined |-> combined]
                      ELSE [raised |-> FALSE,
                            combined |-> <<RewireInput(merged, name)>>]

\* ----------------------------------------------------------- the export run

GroupOrder == <<"Price", "Revenue">>

AllFeatures == <<"accommodates", "bedrooms", "bathrooms", "beds">>

\* list(X_train.columns)
FeatureLists == {SubSeq(AllFeatures, 1, k) : k \in 1..MaxFeatures}

\* the metadata prepare_data_pipeline returns (statistical maps and medians)
UpstreamMetadata ==
    {[neighborhood_stats |-> "stats", medians |-> "medians",
      target_encoding |-> "encoding", label_encoding |-> "labels"]}

\* a trained model, as far as the export reads it: convert_lightgbm raises on
\* it, or builds a graph of one of the converter's shapes
ModelHandles ==
    {[converts |-> FALSE, shape |-> 1]} \cup
    {[converts |-> TRUE, shape |-> sh] : sh \in ConverterShapes}

\* the key orders a dict of at most MaxModels distinct names can have
Registries(Names) ==
    {r \in UNION {[1..k -> Names] : k \in 0..MaxModels} :
        \A i, j \in 1..Len(r) : r[i] = r[j] => i = j}

VARIABLES
    registry,        \* list(trainer.models.keys()), in insertion order
    models,          \* trainer.models[name]['model']: whether it converts, and to what
    feature_names,   \* list(X_train.columns)
    metadata,        \* the metadata dict of prepare_data_pipeline
    pc,              \* the position of run_analysis
    groups,          \* groups[group_name]: the model names of the group
    group_idx,       \* the position of the group loop in GroupOrder
    model_idx,       \* the position of the fold in the group's model names
    combined_model,  \* <<>> for None, <<g>> for a graph
    folded,          \* per group, the models whose try block completed, in order
    log,             \* the "Error converting/merging <name>" lines, by name
    metadata_file,   \* outputs/models_metadata.json: <<>> or <<document>>
    metadata_writes, \* how many times the metadata file was written
    artifacts,       \* outputs/<group>_Model.onnx: <<>> or <<graph>>
    raised           \* an exception has left run_analysis

vars == <<registry, models, feature_names, metadata, pc, groups, group_idx,
          model_idx, combined_model, folded, log, metadata_file,
          metadata_writes, artifacts, raised>>

inputs == <<registry, models, feature_names, metadata>>

InitWith(Names) ==
    /\ registry \in Registries(Names)
    /\ models \in [SeqRange(registry) -> ModelHandles]
    /\ feature_names \in FeatureLists
    /\ metadata \in UpstreamMetadata
    /\ pc = "metadata"
    /\ groups = [Price |-> <<>>, Revenue |-> <<>>]
    /\ group_idx = 1
    /\ model_idx = 1
    /\ combined_model = <<>>
    /\ folded = [Price |-> <<>>, Revenue |-> <<>>]
    /\ log = <<>>
    /\ metadata_file = <<>>
    /\ metadata_writes = 0
    /\ artifacts = [Price |-> <<>>, Revenue |-> <<>>]
    /\ raised = FALSE

\* the state when "Exporting Models..." is printed
Init == InitWith(TrainedNames)

\* a document written before feature_names is put into the metadata
MetadataDocument_NoFeatureNames(md, fn) ==
    [neighborhood_stats |-> md.neighborhood_stats, medians |-> md.medians,
     target_encoding |-> md.target_encoding, label_encoding |-> md.label_encoding,
     feature_names |-> <<>>]

\* the document json.dump writes: the upstream metadata with feature_names added
MetadataDocument(md, fn) ==
    [neighborhood_stats |-> md.neighborhood_stats, medians |-> md.medians,
     target_encoding |-> md.target_encoding, label_encoding |-> md.label_encoding,
     feature_names |-> fn]

\* lines 45-54
WriteMetadata ==
    /\ pc = "metadata"
    /\ metadata_file' = <<MetadataDocument(metadata, feature_names)>>
    /\ metadata_writes' = metadata_writes + 1
    /\ pc' = "grouping"
    /\ UNCHANGED <<inputs, groups, group_idx, model_idx, combined_model, folded,
                   log, artifacts, raised>>

InPrice(n) == startswith(n, "Price")

InRevenue(n) == ~startswith(n, "Price") /\ startswith(n, "Revenue")

\* lines 56-62
GroupModels ==
    /\ pc = "grouping"
    /\ groups' = [Price |-> FilterSeq(InPrice, registry),
                  Revenue |-> FilterSeq(InRevenue, registry)]
    /\ group_idx' = 1
    /\ pc' = "sort"
    /\ UNCHANGED <<inputs, model_idx, combined_model, folded, log, metadata_file,
                   metadata_writes, artifacts, raised>>

group_name == GroupOrder[group_idx]

\* a group loop that does not reset combined_model
BeginGroup_NoReset ==
    /\ pc = "sort"
    /\ model_idx' = 1
    /\ IF SortRaises(groups[GroupOrder[group_idx]])
       THEN /\ raised' = TRUE
            /\ pc' = "aborted"
            /\ UNCHANGED groups
       ELSE /\ groups' = [groups EXCEPT ![GroupOrder[group_idx]] =
                             SortByKey(groups[GroupOrder[group_idx]])]
            /\ pc' = "fold"
            /\ UNCHANGED raised
    /\ UNCHANGED <<inputs, group_idx, combined_model, folded, log, metadata_file,
                   metadata_writes, artifacts>>

\* lines 64-74: combined_model = None, then model_names.sort(key=sort_key),
\* out of which a ValueError of sort_key leaves run_analysis
BeginGroup ==
    /\ pc = "sort"
    /\ combined_model' = <<>>
    /\ model_idx' = 1
    /\ IF SortRaises(groups[group_name])
       THEN /\ raised' = TRUE
            /\ pc' = "aborted"
            /\ UNCHANGED groups
       ELSE /\ groups' = [groups EXCEPT ![group_name] = SortByKey(groups[group_name])]
            /\ pc' = "fold"
            /\ UNCHANGED raised
    /\ UNCHANGED <<inputs, group_idx, folded, log, metadata_file, metadata_writes,
                   artifacts>>

\* an iteration whose exception is not caught and leaves run_analysis
FoldModel_Uncaught ==
    /\ pc = "fold"
    /\ model_idx <= Len(groups[GroupOrder[group_idx]])
    /\ LET name == groups[GroupOrder[group_idx]][model_idx]
           r == TryBlock(combined_model, name, models[name], Len(feature_names))
       IN  /\ combined_model' = r.combined
           /\ log' = log
           /\ folded' = IF r.raised THEN folded
                        ELSE [folded EXCEPT ![GroupOrder[group_idx]] = Append(@, name)]
           /\ raised' = r.raised
           /\ pc' = IF r.raised THEN "aborted" ELSE pc
    /\ model_idx' = model_idx + 1
    /\ UNCHANGED <<inputs, groups, group_idx, metadata_file, metadata_writes,
                   artifacts>>

\* lines 76-145: one iteration of the fold; an exception of the try block is
\* caught, reported with the model's name, and the loop goes on
FoldModel ==
    /\ pc = "fold"
    /\ model_idx <= Len(groups[group_name])
    /\ LET name == groups[group_name][model_idx]
           r == TryBlock(combined_model, name, models[name], Len(feature_names))
       IN  /\ combined_model' = r.combined
           /\ log' = IF r.raised THEN Append(log, name) ELSE log
           /\ folded' = IF r.raised THEN folded
                        ELSE [folded EXCEPT ![group_name] = Append(@, name)]
    /\ model_idx' = model_idx + 1
    /\ UNCHANGED <<inputs, pc, groups, group_idx, metadata_file, metadata_writes,
                   artifacts, raised>>

\* lines 147-150, and the step of the group loop
SaveGroup ==
    /\ pc = "fold"
    /\ model_idx > Len(groups[group_name])
    /\ artifacts' = IF combined_model # <<>>
                    THEN [artifacts EXCEPT ![group_name] = combined_model]
                    ELSE artifacts
    /\ IF group_idx < Len(GroupOrder)
       THEN group_idx' = group_idx + 1 /\ pc' = "sort"
       ELSE UNCHANGED group_idx /\ pc' = "finish"
    /\ UNCHANGED <<inputs, groups, model_idx, combined_model, folded, log,
                   metadata_file, metadata_writes, raised>>

\* line 152
Finish ==
    /\ pc = "finish"
    /\ pc' = "done"
    /\ UNCHANGED <<inputs, groups, group_idx, model_idx, combined_model, folded,
                   log, metadata_file, metadata_writes, artifacts, raised>>

Next == WriteMetadata \/ GroupModels \/ BeginGroup \/ FoldModel \/ SaveGroup \/ Finish

Spec == Init /\ [][Next]_vars

\* --------------------------------------------------- any registrable names

Price_q5_q95 == <<"Price", "_", "q", "5", "_", "q", "9", "5">>
Price_quantile_q5 == <<"Price", "_", "q", "uantile", "_", "q", "5">>
Price_Base == <<"Price">>
Price_Price == <<"Price", "_", "Price">>
Occupancy_Point == <<"Occupancy", "_", "Point">>

\* names train_point_estimator and train_quantile_estimator register when their
\* callers choose other base names: train_quantile_estimator(.., 0.95, "Price_q5"),
\* train_quantile_estimator(.., 0.05, "Price_quantile"),
\* train_point_estimator(.., "Price"), train_point_estimator(.., "Price_Price"),
\* train_point_estimator(.., "Occupancy_Point")
AnyNames ==
    {Price_Point, Price_Lower_q5, Price_Mid_q10, Revenue_Point,
     Price_q5_q95, Price_quantile_q5, Price_Base, Price_Price, Occupancy_Point}

InitAnyNames == InitWith(AnyNames)

SpecAnyNames == InitAnyNames /\ [][Next]_vars

\* names two of which meet after prefixing: the renamed output of the model
\* registered by train_point_estimator(.., "Price_Price") is 'Price_Price', and
\* so is 'Price_' + 'Price', the prefixed output of the model named 'Price'
CollidingNames == {Price_Price, Price_Base, Price_Lower_q5, Revenue_Point}

InitCollidingNames == InitWith(CollidingNames)

SpecCollidingNames == InitCollidingNames /\ [][Next]_vars

\* ------------------------------------------------------------- evaluation
\* The value of tensor t of graph g as a term over the batch fed to the
\* declared inputs: [op, attr, args].  A declared input is the term of its
\* name, an initializer the term of its constant, a node output the node's
\* operation applied to the terms of its inputs; a name nothing declares or
\* writes is undefined.

Producers(g, t) == {i \in 1..Len(g.node) : t \in SeqRange(g.node[i].output)}

RECURSIVE TermOf(_, _, _)
TermOf(g, t, fuel) ==
    IF t \in InputNames(g)
    THEN [op |-> "input", attr |-> t, args |-> <<>>]
    ELSE IF t \in InitializerNames(g)
    THEN LET i == CHOOSE j \in 1..Len(g.initializer) : g.initializer[j].name = t
         IN  [op |-> "constant", attr |-> <<g.initializer[i].value>>, args |-> <<>>]
    ELSE IF Producers(g, t) = {} \/ fuel = 0
    THEN [op |-> "undefined", attr |-> t, args |-> <<>>]
    ELSE LET nd == g.node[SetMin(Producers(g, t))]
         IN  [op |-> nd.op_type, attr |-> nd.attr,
              args |-> [k \in 1..Len(nd.input) |-> TermOf(g, nd.input[k], fuel - 1)]]

\* the value of tensor t of graph g
Value(g, t) == TermOf(g, t, Len(g.node))

\* the value the converted graph of model name computes on its own
SourceValue(name) ==
    Value(convert_lightgbm(name, models[name].shape, Len(feature_names)), Variable)

\* the fold of lines 76-145 over the names of order, from combined
RECURSIVE FoldAll(_, _)
FoldAll(combined, order) ==
    IF order = <<>> THEN combined
    ELSE FoldAll(TryBlock(combined, order[1], models[order[1]],
                          Len(feature_names)).combined,
                 SubSeq(order, 2, Len(order)))

\* the orders of the elements of sequence s
OrdersOf(s) ==
    {p \in [1..Len(s) -> SeqRange(s)] : \A i, j \in 1..Len(s) : p[i] = p[j] => i = j}

\* the fold of the current group has processed every model of the group
FoldFinished == pc = "fold" /\ model_idx > Len(groups[group_name])

Converts(n) == models[n].converts

AllConvert(g) == \A i \in 1..Len(groups[g]) : Converts(groups[g][i])

FailedIn(g) == FilterSeq(LAMBDA n : ~Converts(n), groups[g])

DistinctNames(s) == \A i, j \in 1..Len(s) : s[i].name = s[j].name => i = j

\* ------------------------------------------------------------------ claims

GroupNames == {"Price", "Revenue"}

ConvertingNames(g) == {n \in SeqRange(groups[g]) : Converts(n)}

\* C1: the declared output names of a written artifact are exactly the
\* logical names of the models of the group that converted, for the model
\* adopted first and for every model merged after it.
C1_OutputNamesAreModelNames ==
    \A g \in GroupNames :
        artifacts[g] # <<>> => OutputNames(artifacts[g][1]) = ConvertingNames(g)

\* C2: after the fold over a group of k >= 1 models that all convert, the
\* accumulator has exactly k declared outputs, pairwise distinct in name, and
\* exactly one declared input.
C2_OutputCardinality ==
    (FoldFinished /\ Len(groups[group_name]) >= 1 /\ AllConvert(group_name)) =>
        /\ combined_model # <<>>
        /\ Len(combined_model[1].output) = Len(groups[group_name])
        /\ DistinctNames(combined_model[1].output)
        /\ Len(combined_model[1].input) = 1

C2_Witness ==
    FoldFinished /\ Len(groups[group_name]) = 3 /\ AllConvert(group_name)

\* C3: after every completed fold step the accumulator declares exactly one
\* input, 'float_input' of shape [batch, F] with F = len(feature_names),
\* whichever models fail conversion.
C3_SingleFloatInput ==
    combined_model # <<>> =>
        combined_model[1].input =
            <<[name |-> FloatInput, shape |-> Len(feature_names)]>>

\* the point-estimate model failed, a quantile model was adopted first and
\* another model was merged onto it
C3_Witness ==
    /\ pc = "fold"
    /\ Len(groups[group_name]) >= 3
    /\ ContainsPoint(groups[group_name][1])
    /\ ~Converts(groups[group_name][1])
    /\ Len(folded[group_name]) >= 2
    /\ Len(combined_model[1].output) >= 2

\* graph gr computes, at its i-th declared output, the value the converted
\* graph of the i-th model of names computes on its own
ComputesModels(gr, names) ==
    /\ Len(gr.output) = Len(names)
    /\ \A i \in 1..Len(names) : Value(gr, gr.output[i].name) = SourceValue(names[i])

\* C4: every declared output of the merged graph has the value that the
\* corresponding source model's own converted graph computes on the same
\* batch: the same operations on the shared 'float_input'.
C4_MergeEquivalence ==
    /\ (pc = "fold" /\ combined_model # <<>>) =>
          ComputesModels(combined_model[1], folded[group_name])
    /\ \A g \in GroupNames :
          artifacts[g] # <<>> => ComputesModels(artifacts[g][1], folded[g])

C4_Witness ==
    \E g \in GroupNames :
        /\ artifacts[g] # <<>>
        /\ Len(artifacts[g][1].output) = 3
        /\ \E n \in SeqRange(folded[g]) : models[n].shape = 2

ExportedOutputs(g) ==
    IF artifacts[g] = <<>> THEN 0 ELSE Len(artifacts[g][1].output)

\* the failures reported for the models of group g, in order
ReportedFor(g) == FilterSeq(LAMBDA n : n \in SeqRange(groups[g]), log)

ExportEnded == pc \in {"finish", "done"}

\* C5: when exactly one of the k models of a group fails conversion, the
\* exported artifact has k-1 declared outputs, exactly one failure is reported
\* for the group and it names the failed model, and run_analysis does not raise.
C5_PartialFailure ==
    \A g \in GroupNames :
        Len(FailedIn(g)) = 1 =>
            /\ ~raised
            /\ ExportEnded =>
                  /\ ExportedOutputs(g) = Len(groups[g]) - 1
                  /\ ReportedFor(g) = FailedIn(g)

C5_Witness ==
    /\ pc = "done"
    /\ \E g \in GroupNames :
          /\ Len(groups[g]) = 3
          /\ Len(FailedIn(g)) = 1
          /\ ~Converts(groups[g][2])
          /\ ExportedOutputs(g) = 2

\* the quantile level a name carries as its '_q<level>' suffix
QSuffix(n) == SubSeq(n, (CHOOSE i \in QPositions(n) : \A j \in QPositions(n) : j <= i) + 2, Len(n))

IsQuantileName(n) == ~ContainsPoint(n) /\ ContainsQ(n) /\ IsNumeral(QSuffix(n))

QuantileLevel(n) == NumeralValue(QSuffix(n))

\* C6: within a group the fold processes the point-estimate model (name
\* containing 'Point') first and then the quantile models in ascending
\* numeric quantile level, the level being the '_q<level>' suffix of the name.
C6_PointThenAscendingQuantiles ==
    pc = "fold" =>
        LET s == groups[group_name]
        IN  \A i, j \in 1..Len(s) :
               i < j =>
                  /\ ContainsPoint(s[j]) => ContainsPoint(s[i])
                  /\ (IsQuantileName(s[i]) /\ IsQuantileName(s[j])) =>
                        QuantileLevel(s[i]) <= QuantileLevel(s[j])

TensorCount(gr, t) ==
    Cardinality({i \in 1..Len(gr.input) : gr.input[i].name = t})
    + Cardinality({i \in 1..Len(gr.initializer) : gr.initializer[i].name = t})
    + Cardinality({<<i, k>> \in (1..Len(gr.node)) \X (1..3) :
                     k <= Len(gr.node[i].output) /\ gr.node[i].output[k] = t})

\* what the writer of the design validates: exactly one declared input, at
\* least one declared output, no duplicate tensor names, no dangling references
ValidGraph(gr) ==
    /\ Len(gr.input) = 1
    /\ Len(gr.output) >= 1
    /\ DistinctNames(gr.output)
    /\ \A t \in InputNames(gr) \cup InitializerNames(gr) \cup EdgeNames(gr) :
          TensorCount(gr, t) <= 1
    /\ \A t \in EdgeNames(gr) \cup OutputNames(gr) : TensorCount(gr, t) = 1

\* Every artifact run_analysis persists satisfies the conditions of the
\* design's writer; save_model is called without any validation, so this
\* rests on the fold alone.
PersistedGraphsAreValid ==
    \A g \in GroupNames : artifacts[g] # <<>> => ValidGraph(artifacts[g][1])

\* C9: folding the models of a group in any other order yields a graph with
\* the same set of declared output names and, per output name, the same value.
C9_OrderInvariance ==
    FoldFinished =>
        \A p \in OrdersOf(groups[group_name]) :
            LET other == FoldAll(<<>>, p)
            IN  /\ other = <<>> <=> combined_model = <<>>
                /\ other # <<>> =>
                      /\ OutputNames(other[1]) = OutputNames(combined_model[1])
                      /\ \A t \in OutputNames(other[1]) :
                            Value(other[1], t) = Value(combined_model[1], t)

\* C10: in a run that reaches the export stage the metadata document is
\* written exactly once, and it holds the ordered feature-name list together
\* with the upstream maps and medians unchanged.
C10_MetadataWrittenOnce ==
    /\ metadata_writes <= 1
    /\ pc # "metadata" =>
          /\ metadata_writes = 1
          /\ Len(metadata_file) = 1
          /\ metadata_file[1].feature_names = feature_names
          /\ metadata_file[1].neighborhood_stats = metadata.neighborhood_stats
          /\ metadata_file[1].medians = metadata.medians
          /\ metadata_file[1].target_encoding = metadata.target_encoding
          /\ metadata_file[1].label_encoding = metadata.label_encoding

\* a finished run with two non-empty groups and a failed conversion
C10_Witness ==
    /\ pc = "done"
    /\ metadata_writes = 1
    /\ Len(groups["Price"]) >= 1
    /\ Len(groups["Revenue"]) >= 1
    /\ log # <<>>
    /\ Len(feature_names) = 2

\* the graph convert_lightgbm builds for the registered model n
ConvertedGraph(n) == convert_lightgbm(n, models[n].shape, Len(feature_names))

\* the names the nodes of gr read, and the names they write
ReadNames(gr) == UNION {SeqRange(gr.node[i].input) : i \in 1..Len(gr.node)}

WrittenNames(gr) == UNION {SeqRange(gr.node[i].output) : i \in 1..Len(gr.node)}

\* every name a node of gr reads, and every declared output, is a declared
\* input, an initializer or the output of a node of gr
NoUndeclaredReference(gr) ==
    ReadNames(gr) \cup OutputNames(gr) \subseteq
        InputNames(gr) \cup InitializerNames(gr) \cup WrittenNames(gr)

\* the models whose try block has completed, in any group
FoldedNames == UNION {SeqRange(folded[g]) : g \in GroupNames}

\* C11: for the converted graph of every model the fold has taken, with
\* declared output o, after the rename to the model's name n no node output
\* and no node input is o, the declared output is named n, and the renamed
\* graph refers to no undeclared tensor.
C11_RenameIsComplete ==
    \A n \in FoldedNames :
        LET o == ConvertedGraph(n).output[1].name
            renamed == RenameOutput(ConvertedGraph(n), n)
        IN  /\ o \notin WrittenNames(renamed)
            /\ o \notin ReadNames(renamed)
            /\ renamed.output[1].name = n
            /\ n \in WrittenNames(renamed)
            /\ NoUndeclaredReference(renamed)
            /\ (folded[group_name] = <<n>> /\ pc = "fold") =>
                  combined_model = <<renamed>>

\* a model with the longer converted graph was renamed and adopted first
C11_Witness ==
    /\ pc = "fold"
    /\ Len(folded[group_name]) = 1
    /\ models[folded[group_name][1]].shape = 2
    /\ combined_model # <<>>
    /\ OutputNames(combined_model[1]) = {folded[group_name][1]}

\* the name add_prefix gives the declared input of the graph of model n
RedundantInputName(n) == (n \o Underscore) \o FloatInput

\* C12: after every completed merge step every tensor name a node of the
\* accumulator reads is a declared input of the accumulator, an initializer
\* or the output of one of its nodes; no node reads '<name>_float_input',
\* which is no longer a declared input.
C12_NoDanglingRead ==
    combined_model # <<>> =>
        /\ ReadNames(combined_model[1]) \subseteq
              InputNames(combined_model[1]) \cup InitializerNames(combined_model[1])
                 \cup WrittenNames(combined_model[1])
        /\ \A n \in SeqRange(registry) :
              /\ RedundantInputName(n) \notin ReadNames(combined_model[1])
              /\ RedundantInputName(n) \notin InputNames(combined_model[1])

\* two models were merged onto the first, one of them reading an initializer
C12_Witness ==
    /\ pc = "fold"
    /\ Len(folded[group_name]) = 3
    /\ models[folded[group_name][3]].shape = 2
    /\ Len(combined_model[1].node) >= 7
    /\ FloatInput \in ReadNames(combined_model[1])

GroupPosition(g) == CHOOSE k \in 1..Len(GroupOrder) : GroupOrder[k] = g

\* how many models of group g the fold has processed
Processed(g) ==
    IF pc \in {"finish", "done"} THEN Len(groups[g])
    ELSE IF pc \in {"sort", "fold"} /\ GroupPosition(g) < group_idx THEN Len(groups[g])
    ELSE IF pc = "fold" /\ g = group_name THEN model_idx - 1
    ELSE 0

\* the accumulator when the fold comes to the i-th model of group g
AccumulatorBefore(g, i) == FoldAll(<<>>, SubSeq(groups[g], 1, i - 1))

\* the graph handed to merge_models for model n
PrefixedGraph(n) == add_prefix(RenameOutput(ConvertedGraph(n), n), n \o Underscore)

\* the merger finds that the prefixed graph of the i-th model of group g
\* shares a name with the accumulator
Collides(g, i) ==
    /\ Converts(groups[g][i])
    /\ AccumulatorBefore(g, i) # <<>>
    /\ OverlappingNames(AccumulatorBefore(g, i)[1], PrefixedGraph(groups[g][i]))

\* C13: a name collision found by the merger is not recovered as a per-model
\* skip: once the fold has processed a model whose prefixed graph shares a
\* name with the accumulator, an exception has left run_analysis and no
\* artifact is exported for the group.
C13_CollisionIsFatal ==
    \A g \in GroupNames :
        \A i \in 1..Processed(g) :
            Collides(g, i) => (raised /\ artifacts[g] = <<>>)

\* C14: the model names of a group being pairwise distinct, at every merge
\* step the incoming graph prefixed with '<name>_' shares no name with the
\* accumulator, and no model that converts is rejected by the merge.
C14_PrefixedGraphsAreDisjoint ==
    /\ pc = "fold" =>
          \A i \in 1..Len(groups[group_name]) : ~Collides(group_name, i)
    /\ \A n \in SeqRange(log) : ~Converts(n)

\* C15: in every state of the fold no two declared tensors of the accumulator
\* (declared inputs, initializers, node outputs) have the same name, every
\* declared output has exactly one producer, and no two declared outputs
\* have the same name.
C15_NoDuplicateTensorNames ==
    combined_model # <<>> =>
        LET gr == combined_model[1]
        IN  /\ \A t \in InputNames(gr) \cup InitializerNames(gr) \cup WrittenNames(gr) :
                  TensorCount(gr, t) = 1
            /\ \A t \in OutputNames(gr) : TensorCount(gr, t) = 1
            /\ DistinctNames(gr.output)

\* three graphs, two of them with an initializer, are in the accumulator
C15_Witness ==
    /\ pc = "fold"
    /\ combined_model # <<>>
    /\ Len(combined_model[1].output) = 3
    /\ Len(combined_model[1].initializer) >= 2

\* node nd is node nb of the incoming graph of model n, but for input
\* references rewired from '<n>_float_input' to 'float_input'
ContributedBy(nd, nb, n) ==
    /\ nd.name = nb.name
    /\ nd.op_type = nb.op_type
    /\ nd.attr = nb.attr
    /\ nd.output = nb.output
    /\ Len(nd.input) = Len(nb.input)
    /\ \A k \in 1..Len(nd.input) :
          \/ nd.input[k] = nb.input[k]
          \/ nb.input[k] = RedundantInputName(n) /\ nd.input[k] = FloatInput

\* C16: a merge step changes nothing the accumulator held before it: every
\* node, initializer, declared input and declared output it had is present
\* and unchanged after the step, and every other node of the result is a
\* node of the incoming graph in which only references to
\* '<name>_float_input' were rewired to 'float_input'.
C16_MergeKeepsAccumulator ==
    [][(pc = "fold" /\ combined_model # <<>> /\ model_idx' = model_idx + 1) =>
          LET n == groups[group_name][model_idx]
              A == combined_model[1]
              R == combined_model'[1]
          IN  /\ combined_model' # <<>>
              /\ SeqRange(A.node) \subseteq SeqRange(R.node)
              /\ SeqRange(A.initializer) \subseteq SeqRange(R.initializer)
              /\ SeqRange(A.input) \subseteq SeqRange(R.input)
              /\ SeqRange(A.output) \subseteq SeqRange(R.output)
              /\ \A nd \in SeqRange(R.node) \ SeqRange(A.node) :
                    \E nb \in SeqRange(PrefixedGraph(n).node) : ContributedBy(nd, nb, n)]_vars

\* a model was merged onto an accumulator that already held two models
C16_Witness ==
    /\ pc = "fold"
    /\ model_idx = 4
    /\ Len(folded[group_name]) = 3
    /\ Len(combined_model[1].node) >= 6
    /\ log = <<>>

\* the model whose trees a term evaluates (the attribute of its tree ensemble)
RECURSIVE TreesOf(_)
TreesOf(term) ==
    IF term.op = "TreeEnsembleRegressor" THEN term.attr
    ELSE IF Len(term.args) = 0 THEN <<>>
    ELSE TreesOf(term.args[1])

\* the models of the declared outputs of gr, in the order they are declared
OutputModels(gr) ==
    [i \in 1..Len(gr.output) |-> TreesOf(Value(gr, gr.output[i].name))]

\* the models of the tree ensemble nodes of gr, in node order
NodeModels(gr) ==
    LET IsTree(nd) == nd.op_type = "TreeEnsembleRegressor"
        trees == FilterSeq(IsTree, gr.node)
    IN  [i \in 1..Len(trees) |-> trees[i].attr]

\* the models whose graphs the initializers of gr come from, in initializer order
InitializerModels(gr) ==
    [i \in 1..Len(gr.initializer) |->
        LET reader == CHOOSE nd \in SeqRange(gr.node) :
                          gr.initializer[i].name \in SeqRange(nd.input)
        IN  TreesOf(Value(gr, reader.output[1]))]

\* C17: each merge step appends the incoming graph's nodes, initializers and
\* declared output after those of the accumulator: in a written artifact the
\* declared outputs, the nodes and the initializers follow the merge order of
\* the models of the group that converted, the point estimate first and then
\* the quantiles by ascending level.
C17_OutputsInMergeOrder ==
    \A g \in GroupNames :
        artifacts[g] # <<>> =>
            /\ folded[g] = FilterSeq(Converts, groups[g])
            /\ OutputModels(artifacts[g][1]) = folded[g]
            /\ NodeModels(artifacts[g][1]) = folded[g]
            /\ InitializerModels(artifacts[g][1]) =
                  FilterSeq(LAMBDA n : models[n].shape = 2, folded[g])
            /\ \A i, j \in 1..Len(folded[g]) :
                  i < j =>
                     /\ ContainsPoint(folded[g][j]) => ContainsPoint(folded[g][i])
                     /\ (IsQuantileName(folded[g][i]) /\ IsQuantileName(folded[g][j])) =>
                           QuantileLevel(folded[g][i]) <= QuantileLevel(folded[g][j])

\* registered in the order q95, q5, point; exported in the order point, q5, q95
C17_Witness ==
    /\ registry = <<Price_Upper_q95, Price_Lower_q5, Price_Point>>
    /\ artifacts["Price"] # <<>>
    /\ OutputModels(artifacts["Price"][1]) = <<Price_Point, Price_Lower_q5, Price_Upper_q95>>
    /\ Len(artifacts["Price"][1].initializer) = 2

\* C18: the rename of the output of a converted graph changes only
\* occurrences of the old output name: every node name, operation and
\* attribute, every other tensor name, the declared input 'float_input' and
\* all initializers are the same before and after.
C18_RenameFrame ==
    \A n \in FoldedNames :
        LET converted == ConvertedGraph(n)
            o == converted.output[1].name
            renamed == RenameOutput(converted, n)
            SameBut(a, b) ==
                /\ Len(a) = Len(b)
                /\ \A k \in 1..Len(a) : a[k] = b[k] \/ (b[k] = o /\ a[k] = n)
        IN  /\ Len(renamed.node) = Len(converted.node)
            /\ \A i \in 1..Len(converted.node) :
                  /\ renamed.node[i].name = converted.node[i].name
                  /\ renamed.node[i].op_type = converted.node[i].op_type
                  /\ renamed.node[i].attr = converted.node[i].attr
                  /\ SameBut(renamed.node[i].input, converted.node[i].input)
                  /\ SameBut(renamed.node[i].output, converted.node[i].output)
            /\ renamed.input = converted.input
            /\ renamed.input[1].name = FloatInput
            /\ renamed.initializer = converted.initializer
            /\ Len(renamed.output) = Len(converted.output)

\* a graph with an initializer and an intermediate tensor besides the output
\* was renamed, prefixed and merged
C18_Witness ==
    /\ pc = "fold"
    /\ Len(folded[group_name]) = 2
    /\ models[folded[group_name][2]].shape = 2
    /\ models[folded[group_name][1]].shape = 1
    /\ Len(combined_model[1].initializer) = 1

\* C19: when processing a model raises in its fold step (in the conversion
\* or in the merge), the accumulator after the step is the accumulator before
\* it, so the outputs of the models merged before are kept, the fold goes on,
\* and a later model that converts is merged onto the kept accumulator.
C19_FailedStepKeepsAccumulator ==
    [][(pc = "fold" /\ model_idx' = model_idx + 1) =>
          /\ log' # log =>
                /\ combined_model' = combined_model
                /\ folded' = folded
                /\ pc' = "fold"
                /\ ~raised'
          /\ (log' = log /\ combined_model # <<>>) =>
                /\ combined_model' # <<>>
                /\ Len(combined_model'[1].output) = Len(combined_model[1].output) + 1
                /\ SubSeq(combined_model'[1].output, 1, Len(combined_model[1].output)) =
                      combined_model[1].output]_vars

\* the merge of the second model was rejected for overlapping names, and the
\* third model was merged onto the accumulator kept
C19_Witness ==
    /\ pc = "fold"
    /\ model_idx = 4
    /\ groups[group_name] = <<Price_Price, Price_Base, Price_Lower_q5>>
    /\ Converts(Price_Base)
    /\ log = <<Price_Base>>
    /\ folded[group_name] = <<Price_Price, Price_Lower_q5>>
    /\ Len(combined_model[1].output) = 2

\* C20: each group owns its accumulator: it is empty when the fold of the
\* group begins, and the artifact written for a group is the fold, from the
\* empty accumulator, of the models of that group alone: its declared outputs
\* are outputs of models of the group, whatever the other group holds and
\* whether its models converted or failed.
C20_GroupOwnsAccumulator ==
    /\ (pc = "fold" /\ model_idx = 1) => combined_model = <<>>
    /\ \A g \in GroupNames :
          artifacts[g] # <<>> =>
              /\ artifacts[g] = FoldAll(<<>>, groups[g])
              /\ SeqRange(OutputModels(artifacts[g][1])) \subseteq SeqRange(groups[g])
              /\ \A n \in SeqRange(groups[g]) : startswith(n, g)

\* both groups were exported, after a failure in the first
C20_Witness ==
    /\ pc = "done"
    /\ artifacts["Price"] # <<>>
    /\ artifacts["Revenue"] # <<>>
    /\ Len(groups["Price"]) = 2
    /\ ~Converts(groups["Price"][1])
    /\ Len(artifacts["Price"][1].output) = 1
    /\ Len(artifacts["Revenue"][1].output) = 1

\* the position of name n among the keys of trainer.models
RegistryPosition(n) == CHOOSE i \in 1..Len(registry) : registry[i] = n

\* the registered names the grouping puts into group g
MembersOf(g) ==
    {n \in SeqRange(registry) : IF g = "Price" THEN InPrice(n) ELSE InRevenue(n)}

\* C21: the merge order is a function of the registered names and their
\* registration order: the fold processes the members of the group by
\* ascending sort key, and members of equal sort key (names with the same
\* quantile level, or with neither 'Point' nor '_q') in registration order.
C21_DeterministicOrder ==
    pc = "fold" =>
        LET s == groups[group_name]
        IN  /\ SeqRange(s) = MembersOf(group_name)
            /\ Len(s) = Cardinality(MembersOf(group_name))
            /\ \A i, j \in 1..Len(s) :
                  i < j =>
                     /\ sort_key(s[i]).val <= sort_key(s[j]).val
                     /\ sort_key(s[i]).val = sort_key(s[j]).val =>
                           RegistryPosition(s[i]) < RegistryPosition(s[j])

\* the quantile model registered first was moved behind two names of equal
\* key 0.0, which kept their registration order
C21_Witness ==
    /\ pc = "fold"
    /\ registry = <<Price_Lower_q5, Price_Base, Price_Price>>
    /\ groups[group_name] = <<Price_Base, Price_Price, Price_Lower_q5>>
    /\ model_idx = 4

\* C22: ordering a group never raises: sort_key returns a number for every
\* name placed in a group, so no exception of the sort leaves run_analysis
\* before the try block of the fold is entered.
C22_SortNeverRaises ==
    /\ ~raised
    /\ pc # "aborted"
    /\ pc = "fold" => \A n \in SeqRange(groups[group_name]) : sort_key(n).ok

\* how many iterations of the fold have taken model n: an iteration ends with
\* n among the folded models of its group or with a report of n
TimesProcessed(n) ==
    Cardinality({i \in 1..Len(log) : log[i] = n})
    + Cardinality({<<g, i>> \in GroupNames \X (1..MaxModels + 1) :
                      i <= Len(folded[g]) /\ folded[g][i] = n})

\* the registered names that are in a group
Grouped == SeqRange(groups["Price"]) \cup SeqRange(groups["Revenue"])

\* the grouping has run, and every registered name is in at most one group,
\* at most once: names starting with 'Price' in Price, otherwise names
\* starting with 'Revenue' in Revenue
GroupingIsExclusive ==
    pc \notin {"metadata", "grouping"} =>
        /\ \A g \in GroupNames :
              /\ SeqRange(groups[g]) = MembersOf(g)
              /\ Len(groups[g]) = Cardinality(MembersOf(g))
        /\ SeqRange(groups["Price"]) \cap SeqRange(groups["Revenue"]) = {}

\* no artifact has an output of a model that is not a member of its group
ArtifactsHoldGroupMembersOnly ==
    \A g \in GroupNames :
        artifacts[g] # <<>> =>
            SeqRange(OutputModels(artifacts[g][1])) \subseteq MembersOf(g)

\* run_analysis has returned or an exception has left it
RunEnded == pc \in {"done", "aborted"}

\* In a run that reaches its end without an exception every model of a group
\* has been taken by the fold exactly once, and no other model at all.
FoldedOnceWhenExportCompletes ==
    /\ GroupingIsExclusive
    /\ ArtifactsHoldGroupMembersOnly
    /\ \A n \in SeqRange(registry) :
          /\ TimesProcessed(n) <= (IF n \in Grouped THEN 1 ELSE 0)
          /\ (pc = "done" /\ n \in Grouped) => TimesProcessed(n) = 1

\* C23: every registered model is assigned to at most one group (names
\* starting with 'Price' to Price, otherwise names starting with 'Revenue' to
\* Revenue), each model of a group is processed by the fold exactly once (never
\* twice, and once when the run has ended), and a model whose name starts with
\* neither prefix is never processed and appears in no artifact.
C23_GroupedOnceFoldedOnce ==
    /\ GroupingIsExclusive
    /\ ArtifactsHoldGroupMembersOnly
    /\ \A n \in SeqRange(registry) :
          /\ TimesProcessed(n) <= (IF n \in Grouped THEN 1 ELSE 0)
          /\ (RunEnded /\ n \in Grouped) => TimesProcessed(n) = 1

====
